---- MODULE Spec2Model ----
(***************************************************************************)
(* Model of the Db handle of theone-server (src/unnamed/part_000, lines    *)
(* 91-379): lazily leased pooled connections, the transaction flag, bound  *)
(* sibling handles and the async methods that drive them.                  *)
(*                                                                         *)
(* Every async method is a frame on the call stack of the caller (task)    *)
(* that invoked it.  A frame whose pc is "start" has just been called and  *)
(* runs synchronously: no other task steps until it reaches an await.      *)
(* Every await is a suspension point: a driver command that was dispatched *)
(* or a callee that returned.                                              *)
(***************************************************************************)
EXTENDS Integers, Sequences, FiniteSets, TLC

\* ---------------------------------------------------------------- bounds
NTasks == 2          \* concurrent callers of the concurrent specification
NHandles == 3        \* Db objects
MaxConn == 3         \* connections the driver can open over all pools
MaxDepth == 5        \* nested async calls of one caller
MaxBind == 2         \* bound siblings over all handles

Tasks == 1..NTasks
Handles == 1..NHandles
Conns == 1..MaxConn

\* options.name: handles 1 and 2 share a pool name, the others use a second
Name(h) == IF h <= 2 THEN 1 ELSE 2
Names == {Name(h) : h \in Handles}

VARIABLES
  mustInTrans, \* this[_options]['mustInTrans'], fixed at construction
  conn,        \* this[_conn]: the leased connection of each handle, 0 = undefined
  begin,       \* this[_begin]
  currentSql,  \* this[_currentSql]: 0 = null, else the sql of the caller
  lazyInit,    \* this[_lazyInit] is set
  bind,        \* this[_bind]: sequence of handles
  dbPools,     \* dbPools[name]: pool id, 0 = absent
  pools,       \* number of pools mysql.createPool has made
  holder,      \* driver: the handle a connection is leased to, 0 = in the pool
  poolOf,      \* driver: the pool a connection belongs to, 0 = not opened yet
  tx,          \* driver: a transaction is open on the connection
  stack,       \* per caller: the frames of the async calls in progress
  reg,         \* per caller: outcome of the callee that just returned
  result,      \* per caller: outcome of its last completed top-level call
  trace,       \* per caller: what its current top-level call has done so far
  bcount,      \* per handle: BEGINs issued by beginTransaction/_init since
               \* the last commit/rollback call on the handle
  again,       \* per caller: its top-level call is a release that directly
               \* follows a release of the same handle that completed
  obs,         \* the history variables result, trace, bcount, again are kept
  params,      \* _exec: the caller's parameter array (the object it passed)
  job,         \* _exec: the statement being expanded and how far it has got
  execs,       \* _exec: the physical executions sent to the driver so far
  ret          \* _exec: what the call returned or threw

vars == <<mustInTrans, conn, begin, currentSql, lazyInit, bind, dbPools, pools, holder,
          poolOf, tx, stack, reg, result, trace, bcount, again, obs,
          params, job, execs, ret>>
\* the state of the pattern expansion of _exec (lines 178-238)
pvars == <<params, job, execs, ret>>

hvars == <<mustInTrans, conn, begin, currentSql, lazyInit, bind, bcount>>
dvars == <<dbPools, pools, holder, poolOf, tx>>

\* ---------------------------------------------------------------- frames
NoReg == [exc |-> "none", val |-> 0]
NoResult ==
  [op |-> "none", h |-> 0, a |-> 0, keep |-> FALSE, cb |-> "none",
   exc |-> "none", val |-> 0]

\* _exec: no statement is being expanded, nothing was returned
NoJob == [pc |-> "idle"]
NoRet == [kind |-> "none", len |-> 0, err |-> "none"]

Frame(op, h) ==
  [op |-> op, h |-> h, pc |-> "start", i |-> 0, a |-> 0, keep |-> FALSE,
   reinit |-> FALSE, cb |-> "none", e |-> "none", p |-> 0, c |-> 0]

Depth(t) == Len(stack[t])
Top(t) == stack[t][Len(stack[t])]
At(t, op, pc) == Depth(t) > 0 /\ Top(t).op = op /\ Top(t).pc = pc

\* the caller that is running synchronously (a frame just called), if any
Running == {t \in Tasks : Depth(t) > 0 /\ Top(t).pc = "start"}
CanStep(t) == \A u \in Running : u = t

Event(t, h, ev) == [d |-> Depth(t), h |-> h, ev |-> ev]
Emit(t, evs) ==
  IF obs THEN trace' = [trace EXCEPT ![t] = @ \o evs] ELSE UNCHANGED trace
\* the history variable bcount
Count(h, n) ==
  IF obs THEN bcount' = [bcount EXCEPT ![h] = n] ELSE UNCHANGED bcount

\* the top frame moves to pc (awaiting)
Goto(t, f) ==
  /\ stack' = [stack EXCEPT ![t] = [@ EXCEPT ![Len(@)] = f]]
  /\ reg' = [reg EXCEPT ![t] = NoReg]
  /\ UNCHANGED <<result, again, obs, mustInTrans, pvars>>

\* the top frame calls callee and awaits it at pc of f
Invoke(t, f, callee) ==
  /\ Depth(t) < MaxDepth
  /\ stack' = [stack EXCEPT ![t] = Append([@ EXCEPT ![Len(@)] = f], callee)]
  /\ reg' = [reg EXCEPT ![t] = NoReg]
  /\ UNCHANGED <<result, again, obs, mustInTrans, pvars>>

\* the top frame returns val or throws exc
Return(t, exc, val) ==
  /\ stack' = [stack EXCEPT ![t] = SubSeq(@, 1, Len(@) - 1)]
  /\ UNCHANGED <<again, obs, mustInTrans, pvars>>
  /\ IF Depth(t) = 1
       THEN /\ IF obs
                 THEN result' = [result EXCEPT ![t] =
                        [op |-> Top(t).op, h |-> Top(t).h, a |-> Top(t).a,
                         keep |-> Top(t).keep, cb |-> Top(t).cb,
                         exc |-> exc, val |-> val]]
                 ELSE UNCHANGED result
            /\ reg' = [reg EXCEPT ![t] = NoReg]
       ELSE /\ reg' = [reg EXCEPT ![t] = [exc |-> exc, val |-> val]]
            /\ UNCHANGED result

Range(s) == {s[k] : k \in 1..Len(s)}
RECURSIVE SumLen(_, _)
SumLen(f, S) ==
  IF S = {} THEN 0
  ELSE LET x == CHOOSE y \in S : TRUE IN Len(f[x]) + SumLen(f, S \ {x})
BindTotal == SumLen(bind, Handles)

\* ---------------------------------------------------------------- Init
\* the state after construction (lines 107-113), no pool in the registry
Start ==
  /\ conn = [h \in Handles |-> 0]
  /\ begin = [h \in Handles |-> FALSE]
  /\ currentSql = [h \in Handles |-> 0]
  /\ lazyInit = [h \in Handles |-> FALSE]
  /\ bind = [h \in Handles |-> <<>>]
  /\ dbPools = [n \in Names |-> 0]
  /\ pools = 0
  /\ holder = [c \in Conns |-> 0]
  /\ poolOf = [c \in Conns |-> 0]
  /\ tx = [c \in Conns |-> FALSE]
  /\ stack = [t \in Tasks |-> <<>>]
  /\ reg = [t \in Tasks |-> NoReg]
  /\ result = [t \in Tasks |-> NoResult]
  /\ trace = [t \in Tasks |-> <<>>]
  /\ bcount = [h \in Handles |-> 0]
  /\ again = [t \in Tasks |-> FALSE]
\* no statement with a batch parameter is being executed
NoStatement ==
  /\ params = <<>>
  /\ job = NoJob
  /\ execs = <<>>
  /\ ret = NoRet

\* handle 2 is constructed with mustInTrans
Init ==
  /\ Start /\ NoStatement
  /\ mustInTrans = [h \in Handles |-> h = 2]
  /\ obs = TRUE
\* no handle is constructed with mustInTrans
ConcInit ==
  /\ Start /\ NoStatement
  /\ mustInTrans = [h \in Handles |-> FALSE]
  /\ obs = FALSE

\* ---------------------------------------------------------------- driver
\* pool.getConnection(): an idle connection of the pool, else a new one
Idle(p) == {c \in Conns : poolOf[c] = p /\ holder[c] = 0}
Unopened == {c \in Conns : poolOf[c] = 0}
CanLease(p) == Idle(p) # {} \/ Unopened # {}
Min(S) == CHOOSE x \in S : \A y \in S : x <= y
Lease(p) == IF Idle(p) # {} THEN Min(Idle(p)) ELSE Min(Unopened)

\* ---------------------------------------------------------------- _exec
\* line 172: a statement is in flight on the handle
ExecBusy(h) == currentSql[h] # 0
\* mutant: the guard is applied only to a connected handle
ExecNotInTrans_m(h) == ~begin[h] /\ mustInTrans[h] /\ conn[h] # 0
\* line 173: mustInTrans is violated
ExecNotInTrans(h) == ~begin[h] /\ mustInTrans[h]
\* line 131: the registry has a pool of that name
HasPool(n) == dbPools[n] # 0
\* mutant: the deferred begin is forgotten
InitNeedsBegin_m(h) == FALSE
\* line 138: a begin was deferred until the connection exists
InitNeedsBegin(h) == begin[h]

\* lines 172-173: the two guards throw before the try block
ExecReject(t) ==
  /\ At(t, "exec", "start") /\ CanStep(t)
  /\ ExecBusy(Top(t).h) \/ ExecNotInTrans(Top(t).h)
  /\ Return(t, IF ExecBusy(Top(t).h) THEN "Executing" ELSE "NotInTrans", 0)
  /\ UNCHANGED <<hvars, dvars, trace>>

\* line 175: no connection yet, _init is called and awaited
ExecCallInit(t) ==
  /\ At(t, "exec", "start") /\ CanStep(t)
  /\ ~ExecBusy(Top(t).h) /\ ~ExecNotInTrans(Top(t).h)
  /\ conn[Top(t).h] = 0
  /\ Invoke(t, [Top(t) EXCEPT !.pc = "afterInit"], Frame("_init", Top(t).h))
  /\ UNCHANGED <<hvars, dvars, trace>>

\* lines 177-183: the marker is set and the statement is dispatched
Dispatch(t) ==
  LET h == Top(t).h IN
  IF conn[h] = 0
    THEN \* this[_conn][type] throws a TypeError; finally clears the marker
         /\ currentSql' = [currentSql EXCEPT ![h] = 0]
         /\ Return(t, "TypeError", 0)
         /\ UNCHANGED <<conn, begin, lazyInit, bind, bcount, dvars, trace>>
    ELSE /\ currentSql' = [currentSql EXCEPT ![h] = t]
         /\ Goto(t, [Top(t) EXCEPT !.pc = "wait"])
         /\ Emit(t, <<Event(t, h, "STMT")>>)
         /\ UNCHANGED <<conn, begin, lazyInit, bind, bcount, dvars>>

\* lines 175-183 on a connected handle: no await before the marker is set
ExecDirect(t) ==
  /\ At(t, "exec", "start") /\ CanStep(t)
  /\ ~ExecBusy(Top(t).h) /\ ~ExecNotInTrans(Top(t).h)
  /\ conn[Top(t).h] # 0
  /\ Dispatch(t)

\* lines 175-183 after _init has returned
ExecAfterInit(t) ==
  /\ At(t, "exec", "afterInit") /\ CanStep(t)
  /\ IF reg[t].exc # "none"
       THEN /\ currentSql' = [currentSql EXCEPT ![Top(t).h] = 0]
            /\ Return(t, reg[t].exc, 0)
            /\ UNCHANGED <<conn, begin, lazyInit, bind, bcount, dvars, trace>>
       ELSE Dispatch(t)

\* lines 183-184, 236-238: the statement succeeded
ExecDone(t) ==
  /\ At(t, "exec", "wait") /\ CanStep(t)
  /\ currentSql' = [currentSql EXCEPT ![Top(t).h] = 0]
  /\ Return(t, "none", 1)
  /\ UNCHANGED <<conn, begin, lazyInit, bind, bcount, dvars, trace>>

\* lines 228-238: the driver rejected the statement
ExecFail(t) ==
  /\ At(t, "exec", "wait") /\ CanStep(t)
  /\ currentSql' = [currentSql EXCEPT ![Top(t).h] = 0]
  /\ Return(t, "Driver", 0)
  /\ UNCHANGED <<conn, begin, lazyInit, bind, bcount, dvars, trace>>

\* ---------------------------------------------------------------- _init
\* lines 128-135: the connection check, the registry check, createPool
InitStart(t) ==
  /\ At(t, "_init", "start") /\ CanStep(t)
  /\ LET h == Top(t).h IN
     IF conn[h] # 0
       THEN /\ Return(t, "none", 0)
            /\ UNCHANGED <<hvars, dvars, trace>>
       ELSE IF ~HasPool(Name(h))
         THEN /\ pools' = pools + 1
              /\ Goto(t, [Top(t) EXCEPT !.pc = "poolAssign", !.p = pools + 1])
              /\ Emit(t, <<Event(t, h, "CREATEPOOL")>>)
              /\ UNCHANGED <<hvars, dbPools, holder, poolOf, tx>>
         ELSE /\ Goto(t, [Top(t) EXCEPT !.pc = "lease", !.p = dbPools[Name(h)]])
              /\ UNCHANGED <<hvars, dvars, trace>>

\* lines 135-137: the new pool is stored, getConnection is called on it
InitPoolAssign(t) ==
  /\ At(t, "_init", "poolAssign") /\ CanStep(t)
  /\ dbPools' = [dbPools EXCEPT ![Name(Top(t).h)] = Top(t).p]
  /\ Goto(t, [Top(t) EXCEPT !.pc = "lease"])
  /\ UNCHANGED <<hvars, pools, holder, poolOf, tx, trace>>

\* lines 137-143: the connection arrives and is stored; the deferred BEGIN
\* or the lazy-init callback is started
InitLease(t) ==
  /\ At(t, "_init", "lease") /\ CanStep(t)
  /\ CanLease(Top(t).p)
  /\ LET h == Top(t).h
         c == Lease(Top(t).p)
     IN
     /\ holder' = [holder EXCEPT ![c] = h]
     /\ poolOf' = [poolOf EXCEPT ![c] = Top(t).p]
     /\ conn' = [conn EXCEPT ![h] = c]
     /\ IF InitNeedsBegin(h)
          THEN /\ tx' = [tx EXCEPT ![c] = TRUE]
               /\ Count(h, bcount[h] + 1)
               /\ Goto(t, [Top(t) EXCEPT !.pc = "afterBegin"])
               /\ Emit(t, <<Event(t, h, "LEASE"), Event(t, h, "BEGIN")>>)
          ELSE /\ UNCHANGED <<tx, bcount>>
               /\ IF lazyInit[h]
                    THEN /\ Goto(t, [Top(t) EXCEPT !.pc = "afterLazy"])
                         /\ Emit(t, <<Event(t, h, "LEASE"),
                                      Event(t, h, "LAZYINIT")>>)
                    ELSE /\ Return(t, "none", 0)
                         /\ Emit(t, <<Event(t, h, "LEASE")>>)
     /\ UNCHANGED <<begin, currentSql, lazyInit, bind, dbPools, pools>>

\* lines 141-143 after the deferred BEGIN
InitAfterBegin(t) ==
  /\ At(t, "_init", "afterBegin") /\ CanStep(t)
  /\ IF lazyInit[Top(t).h]
       THEN /\ Goto(t, [Top(t) EXCEPT !.pc = "afterLazy"])
            /\ Emit(t, <<Event(t, Top(t).h, "LAZYINIT")>>)
       ELSE /\ Return(t, "none", 0)
            /\ UNCHANGED trace
  /\ UNCHANGED <<hvars, dvars>>

\* line 144: the lazy-init callback has returned
InitAfterLazy(t) ==
  /\ At(t, "_init", "afterLazy") /\ CanStep(t)
  /\ Return(t, "none", 0)
  /\ UNCHANGED <<hvars, dvars, trace>>

\* ------------------------------------------------------ beginTransaction
\* mutant: the BEGIN is sent whenever connected
BeginNeedsDriver_m(h) == conn[h] # 0
\* line 289: the BEGIN is sent only when not yet transacting and connected
BeginNeedsDriver(h) == ~begin[h] /\ conn[h] # 0
\* mutant: the bound handles are visited last to first
CascadeTarget_m(h, i) == bind[h][Len(bind[h]) + 1 - i]
\* lines 294, 304, 323: for (const db of this[_bind]) visits in array order
CascadeTarget(h, i) == bind[h][i]

\* lines 293-297: the loop over the bound handles, from index i
BeginCascade(t, i, evs) ==
  LET h == Top(t).h IN
  IF i <= Len(bind[h])
    THEN /\ Invoke(t, [Top(t) EXCEPT !.pc = "loop", !.i = i],
                   Frame("beginTransaction", CascadeTarget(h, i)))
         /\ Emit(t, evs)
    ELSE /\ Return(t, "none", 0)
         /\ Emit(t, evs)

\* lines 289-290: the BEGIN is dispatched and awaited
BeginDriver(t) ==
  /\ At(t, "beginTransaction", "start") /\ CanStep(t)
  /\ BeginNeedsDriver(Top(t).h)
  /\ tx' = [tx EXCEPT ![conn[Top(t).h]] = TRUE]
  /\ Count(Top(t).h, bcount[Top(t).h] + 1)
  /\ Goto(t, [Top(t) EXCEPT !.pc = "afterBegin"])
  /\ Emit(t, <<Event(t, Top(t).h, "begin"), Event(t, Top(t).h, "BEGIN")>>)
  /\ UNCHANGED <<conn, begin, currentSql, lazyInit, bind, dbPools, pools,
                 holder, poolOf>>

\* lines 289-297 when no BEGIN is due: the flag is set, the cascade starts
BeginFlag(t) ==
  /\ At(t, "beginTransaction", "start") /\ CanStep(t)
  /\ ~BeginNeedsDriver(Top(t).h)
  /\ begin' = [begin EXCEPT ![Top(t).h] = TRUE]
  /\ BeginCascade(t, 1, <<Event(t, Top(t).h, "begin")>>)
  /\ UNCHANGED <<conn, currentSql, lazyInit, bind, bcount, dvars>>

\* lines 292-297 after the BEGIN
BeginAfterDriver(t) ==
  /\ At(t, "beginTransaction", "afterBegin") /\ CanStep(t)
  /\ begin' = [begin EXCEPT ![Top(t).h] = TRUE]
  /\ BeginCascade(t, 1, <<>>)
  /\ UNCHANGED <<conn, currentSql, lazyInit, bind, bcount, dvars>>

\* lines 294-296: a bound handle's beginTransaction has returned
BeginLoop(t) ==
  /\ At(t, "beginTransaction", "loop") /\ CanStep(t)
  /\ IF reg[t].exc # "none"
       THEN Return(t, reg[t].exc, 0) /\ UNCHANGED trace
       ELSE BeginCascade(t, Top(t).i + 1, <<>>)
  /\ UNCHANGED <<hvars, dvars>>

\* ---------------------------------------------------------------- commit
\* lines 311-318: keepTrans begins anew, else the flag is cleared
CommitKeep(t, evs, txNow) ==
  LET h == Top(t).h IN
  IF Top(t).keep
    THEN IF conn[h] = 0
           THEN \* this[_conn] is undefined: TypeError
                /\ Return(t, "TypeError", 0)
                /\ Emit(t, evs)
                /\ tx' = txNow
                /\ UNCHANGED begin
           ELSE /\ tx' = [txNow EXCEPT ![conn[h]] = TRUE]
                /\ Goto(t, [Top(t) EXCEPT !.pc = "afterKeepBegin"])
                /\ Emit(t, evs \o <<Event(t, h, "BEGIN")>>)
                /\ UNCHANGED begin
    ELSE /\ begin' = [begin EXCEPT ![h] = FALSE]
         /\ tx' = txNow
         /\ Return(t, "none", 0)
         /\ Emit(t, evs)

\* lines 308-310: the handle's own COMMIT
CommitOwn(t, evs) ==
  LET h == Top(t).h IN
  IF begin[h] /\ conn[h] # 0
    THEN /\ Goto(t, [Top(t) EXCEPT !.pc = "afterCommit", !.c = conn[h]])
         /\ Emit(t, evs \o <<Event(t, h, "COMMIT")>>)
         /\ UNCHANGED <<begin, tx>>
    ELSE CommitKeep(t, evs, tx)

\* lines 303-307: the loop over the bound handles, from index i
CommitCascade(t, i, evs) ==
  LET h == Top(t).h IN
  IF i <= Len(bind[h])
    THEN /\ Invoke(t, [Top(t) EXCEPT !.pc = "loop", !.i = i],
                   [Frame("commit", CascadeTarget(h, i)) EXCEPT
                      !.keep = Top(t).keep, !.reinit = Top(t).reinit])
         /\ Emit(t, evs)
         /\ UNCHANGED <<begin, tx>>
    ELSE CommitOwn(t, evs)

\* line 302: a statement is in flight
CommitReject(t) ==
  /\ At(t, "commit", "start") /\ CanStep(t)
  /\ ExecBusy(Top(t).h)
  /\ Return(t, "Executing", 0)
  /\ Emit(t, <<Event(t, Top(t).h, "commit")>>)
  /\ UNCHANGED <<hvars, dvars>>

\* lines 302-318 from the call to the first await
CommitStart(t) ==
  /\ At(t, "commit", "start") /\ CanStep(t)
  /\ ~ExecBusy(Top(t).h)
  /\ Count(Top(t).h, 0)
  /\ CommitCascade(t, 1, <<Event(t, Top(t).h, "commit")>>)
  /\ UNCHANGED <<conn, currentSql, lazyInit, bind, dbPools, pools, holder,
                 poolOf>>

\* lines 304-318: a bound handle's commit has returned
CommitLoop(t) ==
  /\ At(t, "commit", "loop") /\ CanStep(t)
  /\ IF reg[t].exc # "none"
       THEN Return(t, reg[t].exc, 0) /\ UNCHANGED <<trace, begin, tx>>
       ELSE CommitCascade(t, Top(t).i + 1, <<>>)
  /\ UNCHANGED <<conn, currentSql, lazyInit, bind, bcount, dbPools, pools,
                 holder, poolOf>>

\* lines 309-318: the COMMIT succeeded; it closes the transaction
CommitDriverOk(t) ==
  /\ At(t, "commit", "afterCommit") /\ CanStep(t)
  /\ CommitKeep(t, <<>>, [tx EXCEPT ![Top(t).c] = FALSE])
  /\ UNCHANGED <<conn, currentSql, lazyInit, bind, bcount, dbPools, pools,
                 holder, poolOf>>

\* line 309: the driver rejected the COMMIT; the transaction stays open
CommitDriverFail(t) ==
  /\ At(t, "commit", "afterCommit") /\ CanStep(t)
  /\ Return(t, "Driver", 0)
  /\ UNCHANGED <<hvars, dvars, trace>>

\* lines 313-315 after the new BEGIN
CommitAfterKeepBegin(t) ==
  /\ At(t, "commit", "afterKeepBegin") /\ CanStep(t)
  /\ IF Top(t).reinit /\ lazyInit[Top(t).h]
       THEN /\ Goto(t, [Top(t) EXCEPT !.pc = "afterLazy"])
            /\ Emit(t, <<Event(t, Top(t).h, "LAZYINIT")>>)
       ELSE /\ Return(t, "none", 0)
            /\ UNCHANGED trace
  /\ UNCHANGED <<hvars, dvars>>

\* line 315: the lazy-init callback has returned
CommitAfterLazy(t) ==
  /\ At(t, "commit", "afterLazy") /\ CanStep(t)
  /\ Return(t, "none", 0)
  /\ UNCHANGED <<hvars, dvars, trace>>

\* -------------------------------------------------------------- rollback
\* lines 327-330: the handle's own ROLLBACK, or the flag alone
RollbackOwn(t, evs) ==
  LET h == Top(t).h IN
  IF begin[h] /\ conn[h] # 0
    THEN /\ tx' = [tx EXCEPT ![conn[h]] = FALSE]
         /\ Goto(t, [Top(t) EXCEPT !.pc = "afterRollback"])
         /\ Emit(t, evs \o <<Event(t, h, "ROLLBACK")>>)
         /\ UNCHANGED begin
    ELSE /\ begin' = [begin EXCEPT ![h] = FALSE]
         /\ Return(t, "none", 0)
         /\ Emit(t, evs)
         /\ UNCHANGED tx

\* lines 322-326: the loop over the bound handles, from index i
RollbackCascade(t, i, evs) ==
  LET h == Top(t).h IN
  IF i <= Len(bind[h])
    THEN /\ Invoke(t, [Top(t) EXCEPT !.pc = "loop", !.i = i],
                   Frame("rollback", CascadeTarget(h, i)))
         /\ Emit(t, evs)
         /\ UNCHANGED <<begin, tx>>
    ELSE RollbackOwn(t, evs)

\* lines 321-330 from the call to the first await
RollbackStart(t) ==
  /\ At(t, "rollback", "start") /\ CanStep(t)
  /\ Count(Top(t).h, 0)
  /\ RollbackCascade(t, 1, <<Event(t, Top(t).h, "rollback")>>)
  /\ UNCHANGED <<conn, currentSql, lazyInit, bind, dbPools, pools, holder,
                 poolOf>>

\* lines 323-330: a bound handle's rollback has returned
RollbackLoop(t) ==
  /\ At(t, "rollback", "loop") /\ CanStep(t)
  /\ IF reg[t].exc # "none"
       THEN Return(t, reg[t].exc, 0) /\ UNCHANGED <<trace, begin, tx>>
       ELSE RollbackCascade(t, Top(t).i + 1, <<>>)
  /\ UNCHANGED <<conn, currentSql, lazyInit, bind, bcount, dbPools, pools,
                 holder, poolOf>>

\* line 330 after the ROLLBACK
RollbackAfterDriver(t) ==
  /\ At(t, "rollback", "afterRollback") /\ CanStep(t)
  /\ begin' = [begin EXCEPT ![Top(t).h] = FALSE]
  /\ Return(t, "none", 0)
  /\ UNCHANGED <<conn, currentSql, lazyInit, bind, bcount, dvars, trace>>

\* --------------------------------------------------------------- release
\* line 335: release calls rollback first
ReleaseStart(t) ==
  /\ At(t, "release", "start") /\ CanStep(t)
  /\ Invoke(t, [Top(t) EXCEPT !.pc = "afterRollback"],
            Frame("rollback", Top(t).h))
  /\ Emit(t, <<Event(t, Top(t).h, "release")>>)
  /\ UNCHANGED <<hvars, dvars>>

\* lines 336-337: the connection goes back to its pool
ReleaseAfterRollback(t) ==
  /\ At(t, "release", "afterRollback") /\ CanStep(t)
  /\ LET h == Top(t).h IN
     IF reg[t].exc # "none"
       THEN Return(t, reg[t].exc, 0) /\ UNCHANGED <<holder, trace>>
       ELSE IF conn[h] # 0
         THEN /\ holder' = [holder EXCEPT ![conn[h]] = 0]
              /\ Goto(t, [Top(t) EXCEPT !.pc = "afterRelease"])
              /\ Emit(t, <<Event(t, h, "RELEASE")>>)
         ELSE /\ Return(t, "none", 0)
              /\ UNCHANGED <<holder, trace>>
  /\ UNCHANGED <<hvars, dbPools, pools, poolOf, tx>>

\* mutant: the handle keeps the connection it has returned
Forget_m(h) == conn
\* line 338: this[_conn] = undefined
Forget(h) == [conn EXCEPT ![h] = 0]

\* line 338: the handle forgets the connection
ReleaseAfterRelease(t) ==
  /\ At(t, "release", "afterRelease") /\ CanStep(t)
  /\ conn' = Forget(Top(t).h)
  /\ Return(t, "none", 0)
  /\ UNCHANGED <<begin, currentSql, lazyInit, bind, bcount, dvars, trace>>

\* ----------------------------------------------------------- bind, unbind
\* mutant: the primary itself is looked up instead of the sibling
BindHas_m(h, a) == h \in Range(bind[h])
\* line 274: the handle is already bound
BindHas(h, a) == a \in Range(bind[h])
\* mutant: the new sibling is left out of the open transaction
BindNeedsBegin_m(h, a) == FALSE
\* line 276: the new sibling must join the open transaction
BindNeedsBegin(h, a) == begin[h] /\ ~begin[a]

\* lines 273-277: no await before the push
BindStart(t) ==
  /\ At(t, "bind", "start") /\ CanStep(t)
  /\ LET h == Top(t).h
         a == Top(t).a
     IN
     IF BindHas(h, a)
       THEN /\ Return(t, "none", 0)
            /\ UNCHANGED bind
       ELSE /\ bind' = [bind EXCEPT ![h] = Append(@, a)]
            /\ IF BindNeedsBegin(h, a)
                 THEN Invoke(t, [Top(t) EXCEPT !.pc = "afterBegin"],
                             Frame("beginTransaction", a))
                 ELSE Return(t, "none", 1)
  /\ UNCHANGED <<conn, begin, currentSql, lazyInit, bcount, dvars, trace>>

\* lines 276-277: the sibling's beginTransaction has returned
BindAfterBegin(t) ==
  /\ At(t, "bind", "afterBegin") /\ CanStep(t)
  /\ IF reg[t].exc # "none" THEN Return(t, reg[t].exc, 0)
                            ELSE Return(t, "none", 1)
  /\ UNCHANGED <<hvars, dvars, trace>>

\* Array.prototype.indexOf and splice(index, 1)
IndexOf(s, a) ==
  IF a \in Range(s) THEN Min({k \in 1..Len(s) : s[k] = a}) ELSE 0
Splice(s, k) == SubSeq(s, 1, k - 1) \o SubSeq(s, k + 1, Len(s))

\* lines 280-286: unbind is synchronous
Unbind(t) ==
  /\ At(t, "unbind", "start") /\ CanStep(t)
  /\ LET h == Top(t).h
         k == IndexOf(bind[h], Top(t).a)
     IN
     IF k = 0
       THEN /\ Return(t, "none", 0)
            /\ UNCHANGED bind
       ELSE /\ bind' = [bind EXCEPT ![h] = Splice(@, k)]
            /\ Return(t, "none", 1)
  /\ UNCHANGED <<conn, begin, currentSql, lazyInit, bcount, dvars, trace>>

\* lines 116-121: setLazyInit is synchronous
SetLazyInit(t) ==
  /\ At(t, "setLazyInit", "start") /\ CanStep(t)
  /\ IF lazyInit[Top(t).h] \/ conn[Top(t).h] # 0
       THEN /\ Return(t, "TooLate", 0)
            /\ UNCHANGED lazyInit
       ELSE /\ lazyInit' = [lazyInit EXCEPT ![Top(t).h] = TRUE]
            /\ Return(t, "none", 0)
  /\ UNCHANGED <<conn, begin, currentSql, bind, bcount, dvars, trace>>

\* ----------------------------------------------------------- transaction
\* lines 348-349: the catch block saves e and calls rollback
TransCatch(t, e) ==
  Invoke(t, [Top(t) EXCEPT !.pc = "afterRollback", !.e = e],
         Frame("rollback", Top(t).h))
\* mutant: release is called only when the transaction failed
TransFinally_m(t, e) ==
  IF e = "none" THEN Return(t, "none", 1)
  ELSE Invoke(t, [Top(t) EXCEPT !.pc = "afterRelease", !.e = e],
              Frame("release", Top(t).h))
\* lines 351-352: the finally block calls release
TransFinally(t, e) ==
  Invoke(t, [Top(t) EXCEPT !.pc = "afterRelease", !.e = e],
         Frame("release", Top(t).h))

\* line 344
TransStart(t) ==
  /\ At(t, "transaction", "start") /\ CanStep(t)
  /\ Invoke(t, [Top(t) EXCEPT !.pc = "afterBegin"],
            Frame("beginTransaction", Top(t).h))
  /\ Emit(t, <<Event(t, Top(t).h, "transaction")>>)
  /\ UNCHANGED <<hvars, dvars>>

\* line 345: cb(this) is called; it returns, throws, or runs a statement
TransAfterBegin(t) ==
  /\ At(t, "transaction", "afterBegin") /\ CanStep(t)
  /\ IF reg[t].exc # "none"
       THEN TransCatch(t, reg[t].exc) /\ UNCHANGED trace
       ELSE /\ Emit(t, <<Event(t, Top(t).h, "CB")>>)
            /\ CASE Top(t).cb = "ok" ->
                      Goto(t, [Top(t) EXCEPT !.pc = "afterCb"])
                 [] Top(t).cb = "throw" ->
                      TransCatch(t, "CbError")
                 [] OTHER ->
                      Invoke(t, [Top(t) EXCEPT !.pc = "afterCb"],
                             Frame("exec", Top(t).h))
  /\ UNCHANGED <<hvars, dvars>>

\* line 346
TransAfterCb(t) ==
  /\ At(t, "transaction", "afterCb") /\ CanStep(t)
  /\ IF reg[t].exc # "none"
       THEN TransCatch(t, reg[t].exc)
       ELSE Invoke(t, [Top(t) EXCEPT !.pc = "afterCommit"],
                   Frame("commit", Top(t).h))
  /\ UNCHANGED <<hvars, dvars, trace>>

\* lines 347-352
TransAfterCommit(t) ==
  /\ At(t, "transaction", "afterCommit") /\ CanStep(t)
  /\ IF reg[t].exc # "none"
       THEN TransCatch(t, reg[t].exc)
       ELSE TransFinally(t, "none")
  /\ UNCHANGED <<hvars, dvars, trace>>

\* lines 350-352: throw e, unless rollback itself threw
TransAfterRollback(t) ==
  /\ At(t, "transaction", "afterRollback") /\ CanStep(t)
  /\ TransFinally(t, IF reg[t].exc # "none" THEN reg[t].exc ELSE Top(t).e)
  /\ UNCHANGED <<hvars, dvars, trace>>

\* lines 352-353: release has returned, the call settles
TransAfterRelease(t) ==
  /\ At(t, "transaction", "afterRelease") /\ CanStep(t)
  /\ IF reg[t].exc # "none" THEN Return(t, reg[t].exc, 0)
     ELSE IF Top(t).e # "none" THEN Return(t, Top(t).e, 0)
     ELSE Return(t, "none", 1)
  /\ UNCHANGED <<hvars, dvars, trace>>

\* ------------------------------------------------------------ the callers
\* a caller with no call in progress makes a call
Call(t, f) ==
  /\ Depth(t) = 0 /\ Running = {}
  /\ stack' = [stack EXCEPT ![t] = <<f>>]
  /\ trace' = [trace EXCEPT ![t] = <<>>]
  /\ result' = [result EXCEPT ![t] = NoResult]
  /\ again' = [again EXCEPT ![t] =
                 /\ obs /\ f.op = "release"
                 /\ result[t].op = "release" /\ result[t].h = f.h
                 /\ result[t].exc = "none"]
  /\ UNCHANGED <<hvars, dvars, reg, obs, mustInTrans, pvars>>

LazyHandles == {1}
CbKinds == {"ok", "throw", "query"}

\* query/execute, beginTransaction, rollback, release on the handles H
OwnCalls(H) ==
  {Frame(op, h) : op \in {"exec", "beginTransaction", "rollback", "release"},
                  h \in H}
\* commit(keepTrans, reinit)
CommitCalls(H, K) ==
  {[Frame("commit", h) EXCEPT !.keep = k[1], !.reinit = k[2]] :
     h \in H, k \in K}
\* bind(a), unbind(a) on the handles H
BindCalls(H, A) ==
  {[Frame(op, h) EXCEPT !.a = a] : op \in {"bind", "unbind"}, h \in H, a \in A}
TransCalls(H) ==
  {[Frame("transaction", h) EXCEPT !.cb = cb] : h \in H, cb \in CbKinds}
LazyCalls == {Frame("setLazyInit", h) : h \in LazyHandles}

CallFrom(t, F) ==
  \E f \in F :
    /\ f.op = "bind" => (BindHas(f.h, f.a) \/ BindTotal < MaxBind)
    /\ Call(t, f)

\* the steps of query/execute and the lazy acquisition
ExecStep(t) ==
  \/ ExecReject(t) \/ ExecCallInit(t) \/ ExecDirect(t) \/ ExecAfterInit(t)
  \/ ExecDone(t) \/ ExecFail(t)
  \/ InitStart(t) \/ InitPoolAssign(t) \/ InitLease(t) \/ InitAfterBegin(t)

\* the steps of beginTransaction, commit and rollback on one handle
TxStep(t) ==
  \/ BeginDriver(t) \/ BeginFlag(t) \/ BeginAfterDriver(t)
  \/ CommitStart(t) \/ CommitDriverOk(t) \/ CommitDriverFail(t)
  \/ RollbackStart(t) \/ RollbackAfterDriver(t)

\* the steps of release
ReleaseStep(t) ==
  \/ ReleaseStart(t) \/ ReleaseAfterRollback(t) \/ ReleaseAfterRelease(t)

OwnStep(t) == ExecStep(t) \/ TxStep(t) \/ ReleaseStep(t)

\* the steps of the cascade over bound siblings
CascadeStep(t) ==
  \/ BeginLoop(t) \/ CommitLoop(t) \/ RollbackLoop(t)
  \/ BindStart(t) \/ BindAfterBegin(t)

BindStep(t) == CascadeStep(t) \/ Unbind(t)

\* the steps of commit(keepTrans), the lazy-init callback and transaction()
MoreStep(t) ==
  \/ CommitAfterKeepBegin(t)
  \/ InitAfterLazy(t) \/ CommitAfterLazy(t) \/ SetLazyInit(t)
  \/ TransStart(t) \/ TransAfterBegin(t) \/ TransAfterCb(t)
  \/ TransAfterCommit(t) \/ TransAfterRollback(t) \/ TransAfterRelease(t)

\* ------------------------------------------------- _exec: pattern expansion
\* bounds of the statements a caller passes
MaxData == 6         \* values in a batch parameter
MaxPlace == 2        \* placeholders in the repeated fragment
MaxRowOpt == 3       \* options.maxRow

\* line 208: the row cap of INSERT/REPLACE when options has no maxRow
DefaultMaxRow == 1000
\* line 222: a remainder of more groups than this is sent with 'query'
QueryRest == 10
\* line 229: top-level parameters kept in the summary of the error message
SummaryTop == 50
\* line 232: elements of a nested array kept in the summary
SummaryNested == 5

\* JavaScript values of a parameter array: dim 0 is a scalar <<x>>, dim 1 an
\* array of scalars, dim 2 an array of arrays (rows) of scalars
Scalar(x) == [dim |-> 0, v |-> <<x>>]
Flat(s) == [dim |-> 1, v |-> s]
Nested(rows) == [dim |-> 2, v |-> rows]
\* Array.isArray
IsArray(p) == p.dim > 0

\* line 180: params.findIndex(p => Array.isArray(p)), 0 for -1
PatternIndex(ps) ==
  IF \E k \in 1..Len(ps) : IsArray(ps[k])
    THEN Min({k \in 1..Len(ps) : IsArray(ps[k])})
    ELSE 0
\* line 191: Array.isArray(data[0])
Is2d(data) == data.dim = 2
\* mutant: only an empty batch is refused
Mismatch_m(sql, data) == Len(data.v) = 0
\* lines 192-193: the group count is not a positive integer
Mismatch(sql, data) ==
  IF Is2d(data) THEN Len(data.v) = 0
  ELSE Len(data.v) = 0 \/ Len(data.v) % sql.place # 0
\* line 192
PatternNum(sql, data) ==
  IF Is2d(data) THEN Len(data.v) ELSE Len(data.v) \div sql.place
\* line 198: no maxRow option and not INSERT/REPLACE
SingleShot(sql, opt) == ~opt.hasMaxRow /\ ~sql.insert
\* lines 208-209
MaxRowOf(opt, g) ==
  LET m == IF opt.hasMaxRow THEN opt.maxRow ELSE DefaultMaxRow
  IN IF m = 0 THEN g ELSE m
\* mutant: the slice of a flat batch is counted in groups
DataNum_m(sql, data, m) == m
\* line 211
DataNum(sql, data, m) == IF Is2d(data) THEN m ELSE m * sql.place

\* toUtil.repeatStr(s, n)
RECURSIVE RepeatStr(_, _)
RepeatStr(s, n) == IF n <= 0 THEN <<>> ELSE s \o RepeatStr(s, n - 1)
\* lines 200, 212, 220: sql.replace(pattern[0], fragment + n-1 times
\* separator + fragment); the text before and after the template stays
RealSql(n) ==
  <<"head", "fragment">> \o RepeatStr(<<"separator", "fragment">>, n - 1)
    \o <<"tail">>

\* Array.prototype.slice(a, b) with 0-based a and exclusive b
Slice(s, a, b) ==
  SubSeq(s, a + 1, IF b < Len(s) THEN b ELSE Len(s))
\* the values of an array of scalar parameters
RECURSIVE Values(_)
Values(ps) == IF ps = <<>> THEN <<>> ELSE Head(ps).v \o Values(Tail(ps))
\* concat(...rows): every row is flattened
RECURSIVE JoinRows(_)
JoinRows(rows) ==
  IF rows = <<>> THEN <<>> ELSE Head(rows) \o JoinRows(Tail(rows))
\* lines 201, 214, 221: leftParams.concat(...items, rightParams)
Concat(ps, items) ==
  LET x == PatternIndex(ps) IN
  Values(Slice(ps, 0, x - 1))
    \o (IF Is2d(ps[x]) THEN JoinRows(items) ELSE items)
    \o Values(Slice(ps, x, Len(ps)))

\* line 183: the statement without a batch parameter
DirectExec(j, ps) ==
  [method |-> j.type, sql |-> <<"sql">>, params |-> Values(ps)]
\* lines 200-202: every group in one statement
SingleExec(j, ps) ==
  LET data == ps[PatternIndex(ps)] IN
  [method |-> j.type, sql |-> RealSql(PatternNum(j.sql, data)),
   params |-> Concat(ps, data.v)]
\* lines 212-215: the i-th full chunk, i from 0
ChunkExec(j, ps, i) ==
  LET data == ps[PatternIndex(ps)]
      m == MaxRowOf(j.opt, PatternNum(j.sql, data))
      dn == DataNum(j.sql, data, m)
  IN [method |-> j.type, sql |-> RealSql(m),
      params |-> Concat(ps, Slice(data.v, i * dn, (i + 1) * dn))]
\* line 210
FullChunks(j, ps) ==
  LET data == ps[PatternIndex(ps)]
      g == PatternNum(j.sql, data)
  IN g \div MaxRowOf(j.opt, g)
\* line 218
Rest(j, ps) ==
  LET data == ps[PatternIndex(ps)]
      g == PatternNum(j.sql, data)
  IN g - MaxRowOf(j.opt, g) * FullChunks(j, ps)
\* lines 220-222: the remainder
RestExec(j, ps) ==
  LET data == ps[PatternIndex(ps)]
      m == MaxRowOf(j.opt, PatternNum(j.sql, data))
      n == FullChunks(j, ps)
      rest == Rest(j, ps)
  IN [method |-> IF rest > QueryRest THEN "query" ELSE j.type,
      sql |-> RealSql(rest),
      params |-> Concat(ps, Slice(data.v, n * DataNum(j.sql, data, m),
                                  Len(data.v)))]

\* lines 229-233: the summary truncates the nested arrays of the first
\* SummaryTop parameters in place; "... n items ..." is written as -n
\* (a row <<-n>> among rows)
Truncate(p) ==
  IF IsArray(p) /\ Len(p.v) > SummaryNested
    THEN LET n == Len(p.v) - SummaryNested IN
         [p EXCEPT !.v = SubSeq(p.v, 1, SummaryNested)
                           \o <<IF p.dim = 2 THEN <<0 - n>> ELSE 0 - n>>]
    ELSE p
\* the caller's array after the catch block
Summarised(ps) ==
  [k \in 1..Len(ps) |-> IF k <= SummaryTop THEN Truncate(ps[k]) ELSE ps[k]]

\* the variables of the handles, untouched by the expansion
mvars == <<hvars, dvars, stack, reg, result, trace, again, obs>>

\* the parameter arrays a caller passes: nl leading and nr trailing scalars
\* around no batch, a flat batch of n values, or a batch of rows of k values
Iota(n) == [x \in 1..n |-> x]
Rows(n, k) == [r \in 1..(n \div k) |-> [c \in 1..k |-> (r - 1) * k + c]]
Scalars(base, n) == [x \in 1..n |-> Scalar(base + x)]
Batches(k) ==
  {Flat(Iota(n)) : n \in 0..MaxData}
    \cup {Nested(Rows(n, k)) : n \in {x \in 1..MaxData : x % k = 0}}
ParamArrays(k) ==
  {Scalars(100, nl) \o Scalars(200, nr) : nl \in 0..1, nr \in 0..1}
    \cup {Scalars(100, nl) \o <<b>> \o Scalars(200, nr) :
            nl \in 0..1, nr \in 0..1, b \in Batches(k)}
Sqls ==
  [insert : BOOLEAN, pattern : BOOLEAN, place : 1..MaxPlace]
Options ==
  [fields : BOOLEAN, hasMaxRow : {FALSE}, maxRow : {0}]
    \cup [fields : BOOLEAN, hasMaxRow : {TRUE}, maxRow : 0..MaxRowOpt]

\* query(sql, params, options) / execute(sql, params, options) has been
\* called on a connected handle with no statement in flight: lines 171-178
PatInit ==
  /\ Start
  /\ mustInTrans = [h \in Handles |-> FALSE]
  /\ obs = FALSE
  /\ \E type \in {"query", "execute"}, sql \in Sqls, opt \in Options :
       \E ps \in ParamArrays(sql.place) :
         /\ params = ps
         /\ job = [pc |-> "start", type |-> type, sql |-> sql, opt |-> opt,
                   i |-> 0, n |-> 0, orig |-> ps]
  /\ execs = <<>>
  /\ ret = NoRet

\* an execution is handed to the driver and awaited at pc
PatSend(x, pc, i, n) ==
  /\ execs' = Append(execs, x)
  /\ job' = [job EXCEPT !.pc = pc, !.i = i, !.n = n]
  /\ UNCHANGED <<params, ret>>
\* lines 184, 203, 225: the call returns
PatReturn(kind, len) ==
  /\ ret' = [kind |-> kind, len |-> len, err |-> "none"]
  /\ job' = [job EXCEPT !.pc = "done"]
  /\ UNCHANGED <<params, execs>>
\* lines 228-235: the catch block builds the summary and rethrows
PatThrow(err) ==
  /\ params' = Summarised(params)
  /\ ret' = [kind |-> "error", len |-> 0, err |-> err]
  /\ job' = [job EXCEPT !.pc = "done"]
  /\ UNCHANGED execs

\* lines 213-225 from loop index i with n results pushed
PatContinue(i, n) ==
  IF i < FullChunks(job, params)
    THEN PatSend(ChunkExec(job, params, i), "waitChunk", i, n)
  ELSE IF Rest(job, params) > 0
    THEN PatSend(RestExec(job, params), "waitRest", i, n)
  ELSE PatReturn("list", n)

\* lines 180-183: no parameter is an array
PatDirect ==
  /\ job.pc = "start" /\ PatternIndex(params) = 0
  /\ PatSend(DirectExec(job, params), "waitOne", 0, 0)
  /\ UNCHANGED <<mvars, mustInTrans>>

\* lines 187-188: the sql holds no template
PatNoPattern ==
  /\ job.pc = "start" /\ PatternIndex(params) # 0
  /\ ~job.sql.pattern
  /\ PatThrow("Pattern")
  /\ UNCHANGED <<mvars, mustInTrans>>

\* lines 189-193: the batch does not fill a whole number of groups
PatMismatch ==
  /\ job.pc = "start" /\ PatternIndex(params) # 0
  /\ job.sql.pattern
  /\ Mismatch(job.sql, params[PatternIndex(params)])
  /\ PatThrow("Mismatch")
  /\ UNCHANGED <<mvars, mustInTrans>>

\* lines 198-202: one statement with every group
PatSingle ==
  /\ job.pc = "start" /\ PatternIndex(params) # 0
  /\ job.sql.pattern
  /\ ~Mismatch(job.sql, params[PatternIndex(params)])
  /\ SingleShot(job.sql, job.opt)
  /\ PatSend(SingleExec(job, params), "waitOne", 0, 0)
  /\ UNCHANGED <<mvars, mustInTrans>>

\* lines 204-215, 218-222: the capped path up to its first execution
PatCapped ==
  /\ job.pc = "start" /\ PatternIndex(params) # 0
  /\ job.sql.pattern
  /\ ~Mismatch(job.sql, params[PatternIndex(params)])
  /\ ~SingleShot(job.sql, job.opt)
  /\ PatContinue(0, 0)
  /\ UNCHANGED <<mvars, mustInTrans>>

\* lines 184, 203: the only execution succeeded
PatOneDone ==
  /\ job.pc = "waitOne"
  /\ PatReturn(IF job.opt.fields THEN "full" ELSE "rows", 1)
  /\ UNCHANGED <<mvars, mustInTrans>>

\* lines 215-217: a full chunk succeeded, its rows are pushed
PatChunkDone ==
  /\ job.pc = "waitChunk"
  /\ PatContinue(job.i + 1, job.n + 1)
  /\ UNCHANGED <<mvars, mustInTrans>>

\* lines 222-225: the remainder succeeded, the results are returned
PatRestDone ==
  /\ job.pc = "waitRest"
  /\ PatReturn("list", job.n + 1)
  /\ UNCHANGED <<mvars, mustInTrans>>

\* lines 228-235: the driver rejected the execution that was awaited
PatDriverFail ==
  /\ job.pc \in {"waitOne", "waitChunk", "waitRest"}
  /\ PatThrow("Driver")
  /\ UNCHANGED <<mvars, mustInTrans>>

\* ---------------------------------------------------------- specifications
\* one cooperative caller, every operation, two handles of one pool name
SeqHandles == {1, 2}
SeqCalls ==
  OwnCalls(SeqHandles)
  \cup CommitCalls(SeqHandles, {<<FALSE, TRUE>>, <<TRUE, TRUE>>, <<TRUE, FALSE>>})
  \cup BindCalls(SeqHandles, SeqHandles)
  \cup TransCalls(SeqHandles) \cup LazyCalls

Next ==
  \/ CallFrom(1, SeqCalls)
  \/ OwnStep(1) \/ BindStep(1) \/ MoreStep(1)

Spec == Init /\ [][Next]_vars

\* one caller, a primary handle that binds every other handle
Primary == Min(Handles)
Siblings == Handles \ {Primary}
CascadeCalls ==
  {Frame(op, h) : op \in {"exec"}, h \in Handles}
  \cup {Frame(op, Primary) : op \in {"beginTransaction", "rollback"}}
  \cup CommitCalls({Primary}, {<<FALSE, TRUE>>})
  \cup {[Frame("bind", Primary) EXCEPT !.a = a] : a \in Siblings}

CascadeNext ==
  \/ CallFrom(1, CascadeCalls)
  \/ ExecStep(1) \/ TxStep(1) \/ CascadeStep(1)

CascadeSpec == Init /\ [][CascadeNext]_vars

\* concurrent callers on the two handles that share a pool name: the first
\* drives handle 1 through every operation, the others issue statements
ConcHandles == {1, 2}
ConcCalls(t) ==
  IF t = 1
    THEN OwnCalls({1}) \cup CommitCalls({1}, {<<FALSE, TRUE>>})
    ELSE {Frame("exec", h) : h \in ConcHandles}
ConcNext ==
  \E t \in Tasks : CallFrom(t, ConcCalls(t)) \/ OwnStep(t) \/ CommitReject(t)

ConcSpec == ConcInit /\ [][ConcNext]_vars

\* the expansion of one statement on a connected handle
PatNext ==
  \/ PatDirect \/ PatNoPattern \/ PatMismatch \/ PatSingle \/ PatCapped
  \/ PatOneDone \/ PatChunkDone \/ PatRestDone \/ PatDriverFail

PatSpec == PatInit /\ [][PatNext]_vars

\* ================================================================ claims
IsIdle(t) == Depth(t) = 0
\* the top-level call of a caller: in progress, or the last one completed
CurOp(t) == IF Depth(t) > 0 THEN stack[t][1] ELSE result[t]
Completed(t, op) == IsIdle(t) /\ result[t].op = op
Leased(h) == {c \in Conns : holder[c] = h}
Evs(s) == [k \in 1..Len(s) |-> s[k].ev]
Hs(s) == [k \in 1..Len(s) |-> s[k].h]
IsPrefix(s, r) == Len(s) <= Len(r) /\ \A k \in 1..Len(s) : s[k] = r[k]
NoDup(s) == \A j, k \in 1..Len(s) : s[j] = s[k] => j = k
\* caller t has passed the guards of _exec on handle h and has not resolved
Admitted(t, h) ==
  \E k \in 1..Depth(t) :
    /\ stack[t][k].op = "exec" /\ stack[t][k].h = h
    /\ stack[t][k].pc \in {"afterInit", "wait"}

\* C1: on every handle at most one query/execute call is admitted at a time:
\* a call issued while another has not resolved is rejected, also while the
\* first is still acquiring its connection.
C1_SingleFlight ==
  \A h \in Handles : Cardinality({t \in Tasks : Admitted(t, h)}) <= 1

\* C2: handles of one pool name that acquire concurrently create one pool
\* for the name and lease from the same pool.
C2_OnePoolPerName ==
  /\ pools <= Cardinality({Name(h) : h \in ConcHandles})
  /\ \A g, h \in ConcHandles :
       (Name(g) = Name(h) /\ conn[g] # 0 /\ conn[h] # 0)
         => poolOf[conn[g]] = poolOf[conn[h]]

\* C3: a handle never has more than one connection leased and not returned.
C3_AtMostOneLease == \A h \in Handles : Cardinality(Leased(h)) <= 1

\* the outcome of the step in which the top frame of caller t returned
Thrown(t) == IF Depth(t) = 1 THEN result'[t].exc ELSE reg'[t].exc
\* C4: on a mustInTrans handle a query/execute issued while the transacting
\* flag is false is rejected with the not-in-transaction error and changes
\* nothing (no lease, no statement, no in-flight marker); issued while the
\* flag is true it is admitted; the flag is true once beginTransaction has
\* completed.
C4_MustInTrans ==
  /\ [][\A t \in Tasks :
          (At(t, "exec", "start") /\ mustInTrans[Top(t).h]
             /\ stack'[t] # stack[t])
          => IF ~begin[Top(t).h]
               THEN /\ Depth(t)' = Depth(t) - 1
                    /\ Thrown(t) = "NotInTrans"
                    /\ UNCHANGED <<conn, currentSql, dvars, trace>>
               ELSE /\ Depth(t)' >= Depth(t)
                    /\ stack'[t][Depth(t)].pc \in {"afterInit", "wait"}]_vars
  /\ [](\A t \in Tasks :
          (Completed(t, "beginTransaction") /\ result[t].exc = "none")
            => begin[result[t].h])

\* a mustInTrans handle has rejected a statement, and holds no connection
C4_Witness ==
  /\ Completed(1, "exec") /\ result[1].exc = "NotInTrans"
  /\ mustInTrans[result[1].h] /\ conn[result[1].h] = 0

\* the handles whose method m the top-level frame of caller t has called
Visits(t, m) ==
  Hs(SelectSeq(trace[t], LAMBDA e : e.d = 2 /\ e.ev = m))
\* positions in the trace of caller t of the top-level handle's own command
OwnAt(t, cmd) ==
  {k \in 1..Len(trace[t]) : trace[t][k].d = 1 /\ trace[t][k].ev = cmd}
CascadeOrder(t, m, cmd) ==
  /\ IsPrefix(Visits(t, m), bind[CurOp(t).h])
  /\ \A k \in OwnAt(t, cmd) :
       /\ Visits(t, m) = bind[CurOp(t).h]
       /\ \A j \in 1..Len(trace[t]) : trace[t][j].d >= 2 => j < k

\* C5: commit on a primary calls commit on its bound siblings in bind order
\* and sends its own COMMIT only after all of them; rollback likewise, and
\* beginTransaction visits the siblings in bind order.
C5_CascadeOrder ==
  /\ CurOp(1).op = "commit" => CascadeOrder(1, "commit", "COMMIT")
  /\ CurOp(1).op = "rollback" => CascadeOrder(1, "rollback", "ROLLBACK")
  /\ CurOp(1).op = "beginTransaction"
       => IsPrefix(Visits(1, "begin"), bind[CurOp(1).h])

\* a commit on the primary has committed two siblings, then the primary
C5_Witness ==
  /\ Completed(1, "commit") /\ result[1].exc = "none"
  /\ Len(bind[result[1].h]) >= 2
  /\ Hs(SelectSeq(trace[1], LAMBDA e : e.ev = "COMMIT"))
       = bind[result[1].h] \o <<result[1].h>>

\* C6 as stated: a completed beginTransaction leaves the handle connected.
C6_BeginAcquires ==
  \A t \in Tasks :
    (Completed(t, "beginTransaction") /\ result[t].exc = "none")
      => conn[result[t].h] # 0

\* C6 amended: no step of a beginTransaction call creates a pool or leases
\* a connection; the call sets the transacting flag.  The first
\* query/execute gets or creates the pool, leases the connection and sends
\* the deferred BEGIN.
C6_DeferredAcquire ==
  /\ [][\A t \in Tasks :
          (Depth(t) > 0 /\ stack[t][1].op = "beginTransaction")
            => UNCHANGED <<conn, holder, poolOf, dbPools, pools>>]_vars
  /\ [](\A t \in Tasks :
          /\ (Completed(t, "beginTransaction") /\ result[t].exc = "none")
               => begin[result[t].h]
          /\ (Completed(t, "exec") /\ result[t].exc \in {"none", "Driver"})
               => LET h == result[t].h IN
                  /\ conn[h] # 0 /\ holder[conn[h]] = h
                  /\ dbPools[Name(h)] = poolOf[conn[h]]
                  /\ begin[h] => tx[conn[h]])

\* a deferred begin: the flag is set, no connection; then the first
\* statement leased the connection and began the transaction
C6_Witness ==
  /\ Completed(1, "exec") /\ begin[result[1].h]
  /\ Evs(trace[1]) = <<"CREATEPOOL", "LEASE", "BEGIN", "STMT">>

RECURSIVE IsSubseq(_, _)
IsSubseq(s, r) ==
  IF s = <<>> THEN TRUE
  ELSE IF r = <<>> THEN FALSE
  ELSE IF Head(s) = Head(r) THEN IsSubseq(Tail(s), Tail(r))
  ELSE IsSubseq(s, Tail(r))

\* C7: beginTransaction calls with no commit/rollback/release between them
\* send at most one BEGIN, and leave a transaction open on the connection
\* once there is one; on an unconnected handle no BEGIN is sent until the
\* first query/execute, which sends it after the lease, before the
\* lazy-init callback and before the statement.
C7_BeginOnce ==
  /\ \A h \in Handles : bcount[h] <= 1
  /\ \A t \in Tasks :
       /\ (IsIdle(t) /\ result[t].op \in {"beginTransaction", "exec"}
             /\ result[t].exc \in {"none", "Driver"}
             /\ begin[result[t].h] /\ conn[result[t].h] # 0)
            => tx[conn[result[t].h]]
       /\ (Completed(t, "beginTransaction") /\ conn[result[t].h] = 0)
            => \A k \in 1..Len(trace[t]) :
                 trace[t][k].ev = "BEGIN" => trace[t][k].h # result[t].h
       /\ CurOp(t).op = "exec"
            => IsSubseq(Evs(trace[t]),
                 <<"CREATEPOOL", "LEASE", "BEGIN", "LAZYINIT", "STMT">>)

\* the deferred BEGIN went out between the lease and the callback
C7_Witness ==
  /\ Completed(1, "exec") /\ result[1].exc = "none"
  /\ Evs(trace[1]) = <<"LEASE", "BEGIN", "LAZYINIT", "STMT">>
  /\ bcount[result[1].h] = 1

\* C8 as stated: after beginTransaction on H every bound handle is
\* transacting, and after any bind(A) on a transacting H, A is transacting.
C8_BoundTransacting ==
  \A t \in Tasks :
    /\ (Completed(t, "beginTransaction") /\ result[t].exc = "none")
         => \A a \in Range(bind[result[t].h]) : begin[a]
    /\ (Completed(t, "bind") /\ result[t].exc = "none" /\ begin[result[t].h])
         => begin[result[t].a]

\* C8 amended: after beginTransaction on H every bound handle is
\* transacting; after a bind(A) that added A (returned true) to a
\* transacting H, A is transacting; a bind(A) of an A that is already
\* transacting, or already bound, calls no beginTransaction.
C8_NewlyBoundTransacting ==
  /\ [](\A t \in Tasks :
          /\ (Completed(t, "beginTransaction") /\ result[t].exc = "none")
               => \A a \in Range(bind[result[t].h]) : begin[a]
          /\ (Completed(t, "bind") /\ result[t].exc = "none"
                /\ result[t].val = 1 /\ begin[result[t].h])
               => begin[result[t].a])
  /\ [][\A t \in Tasks :
          (At(t, "bind", "start") /\ stack'[t] # stack[t]
             /\ (begin[Top(t).a] \/ Top(t).a \in Range(bind[Top(t).h])))
            => Depth(t)' < Depth(t) /\ UNCHANGED <<begin, tx, trace>>]_vars

\* bind on a transacting primary has begun a transaction on the sibling
C8_Witness ==
  /\ Completed(1, "bind") /\ result[1].val = 1
  /\ result[1].a # result[1].h
  /\ begin[result[1].h] /\ begin[result[1].a]
  /\ \E k \in 1..Len(trace[1]) :
       trace[1][k].ev = "BEGIN" /\ trace[1][k].h = result[1].a

\* C9: bind(A) returns true and appends A when A is not bound, returns
\* false and changes nothing when it is; no binding list holds a handle
\* twice, and one cascaded call visits each bound handle at most once.
C9_BindIdempotent ==
  /\ [](/\ \A h \in Handles : NoDup(bind[h])
        /\ \A t \in Tasks :
             /\ \A m \in {"begin", "commit", "rollback"} : NoDup(Visits(t, m))
             /\ (Completed(t, "bind") /\ result[t].exc = "none")
                  => result[t].a \in Range(bind[result[t].h]))
  /\ [][\A t \in Tasks :
          (At(t, "bind", "start") /\ stack'[t] # stack[t])
            => IF Top(t).a \in Range(bind[Top(t).h])
                 THEN /\ Depth(t)' < Depth(t)
                      /\ result'[t].val = 0 /\ result'[t].exc = "none"
                      /\ UNCHANGED <<hvars, dvars, trace>>
                 ELSE /\ bind' = [bind EXCEPT ![Top(t).h] = Append(@, Top(t).a)]
                      /\ Depth(t)' < Depth(t) => result'[t].val = 1]_vars

\* a second bind of a bound handle returned false
C9_Witness ==
  /\ Completed(1, "bind") /\ result[1].val = 0 /\ result[1].exc = "none"
  /\ result[1].a \in Range(bind[result[1].h])

\* what transaction() itself has done: its callback and the methods it called
TransSteps(t) ==
  Evs(SelectSeq(trace[t],
        LAMBDA e : e.d = 1 \/ (e.d = 2 /\ e.ev \in
                     {"begin", "commit", "rollback", "release"})))
TransOk == <<"transaction", "begin", "CB", "commit", "release">>
TransCbFailed == <<"transaction", "begin", "CB", "rollback", "release">>
TransCommitFailed ==
  <<"transaction", "begin", "CB", "commit", "rollback", "release">>

C11_ReleaseRollsBack ==
  /\ \A c \in Conns : (poolOf[c] # 0 /\ holder[c] = 0) => ~tx[c]
  /\ \A t \in Tasks :
       /\ (Completed(t, "release") /\ result[t].exc = "none")
            => conn[result[t].h] = 0 /\ ~begin[result[t].h]
       /\ CurOp(t).op = "release"
            => \A j, k \in 1..Len(trace[t]) :
                 (trace[t][j].ev = "RELEASE" /\ trace[t][k].ev = "ROLLBACK"
                    /\ trace[t][j].h = trace[t][k].h) => k < j

\* C12: a release that directly follows a completed release of the same
\* handle raises no error, returns no connection to the pool and sends no
\* driver command on the handle or on a handle bound to it: it only calls
\* rollback, which finds nothing to roll back.
C12_ReleaseIdempotent ==
  /\ [](\A t \in Tasks :
          (again[t] /\ CurOp(t).op = "release") =>
            /\ \A k \in 1..Len(trace[t]) :
                 trace[t][k].ev \in {"release", "rollback"}
            /\ conn[CurOp(t).h] = 0 /\ ~begin[CurOp(t).h]
            /\ IsIdle(t) => result[t].exc = "none")
  /\ [][\A t \in Tasks :
          (again[t] /\ Depth(t) > 0 /\ stack[t][1].op = "release")
            => UNCHANGED <<conn, begin, dvars>>]_vars

\* a second release has completed on a handle with a bound, connected
\* sibling, after the first returned a connection to the pool
C12_Witness ==
  /\ Completed(1, "release") /\ again[1] /\ result[1].exc = "none"
  /\ \E a \in Range(bind[result[1].h]) : conn[a] # 0
  /\ \E c \in Conns : poolOf[c] # 0 /\ holder[c] = 0

\* a statement sent on handle h has not resolved
InFlight(h) ==
  \E u \in Tasks : \E k \in 1..Depth(u) :
    stack[u][k].op = "exec" /\ stack[u][k].h = h /\ stack[u][k].pc = "wait"

\* C13: a commit called on a handle while a statement is in flight on it is
\* rejected at once and has no effect: no COMMIT is sent on the handle or a
\* sibling, no flag and no connection changes.
C13_CommitRejected ==
  [][\A t \in Tasks :
       (At(t, "commit", "start") /\ InFlight(Top(t).h)
          /\ stack'[t] # stack[t])
         => /\ Depth(t)' = Depth(t) - 1
            /\ UNCHANGED <<conn, begin, currentSql, dvars>>]_vars

\* the handle of a commit and the siblings its cascade reaches
Committed(h) == {h} \cup Range(bind[h])

\* C14: commit(true, rerunInit) on a transacting handle whose siblings are
\* transacting, each connected or with its begin still deferred, succeeds
\* and leaves every one of them transacting, with a transaction open on the
\* connection of each connected one; after the new BEGIN the lazy-init
\* callback runs again exactly when rerunInit is true and a callback is
\* set.  commit(false) leaves the handle not transacting.
C14_CommitKeep ==
  /\ [](\A t \in Tasks :
          Completed(t, "commit") =>
            LET r == result[t] IN
            /\ (r.keep /\ \A a \in Committed(r.h) : begin[a]) =>
                 /\ r.exc \in {"none", "Driver"}
                 /\ r.exc = "none" =>
                      \A a \in Committed(r.h) : conn[a] # 0 => tx[conn[a]]
            /\ (~r.keep /\ r.exc = "none") => ~begin[r.h])
  /\ [][\A t \in Tasks :
          (At(t, "commit", "afterKeepBegin") /\ stack'[t] # stack[t]) =>
            IF Top(t).reinit /\ lazyInit[Top(t).h]
              THEN /\ Len(trace'[t]) = Len(trace[t]) + 1
                   /\ trace'[t][Len(trace'[t])].ev = "LAZYINIT"
              ELSE /\ Depth(t)' = Depth(t) - 1
                   /\ UNCHANGED trace]_vars

\* C19: whenever no call is in progress and the last call did not fail, the
\* transacting flag of a connected handle is true exactly when a
\* transaction is open on its connection.
C19_FlagAgrees ==
  (\A t \in Tasks : IsIdle(t) /\ result[t].exc = "none")
    => \A h \in Handles : conn[h] # 0 => (begin[h] <=> tx[conn[h]])

\* the cascading methods
Cascading == {"beginTransaction", "commit", "rollback"}

\* C20: beginTransaction, commit and rollback terminate on every binding
\* graph: a cascade never enters a method on a handle on which the same
\* call is still running that method (the loop over the bound handles is
\* unconditional, so such a re-entry repeats without end).
C20_CascadeTerminates ==
  \A t \in Tasks : \A j, k \in 1..Depth(t) :
    (stack[t][j].op \in Cascading /\ stack[t][j].op = stack[t][k].op
       /\ stack[t][j].h = stack[t][k].h) => j = k

\* ---- the statement that was passed, read from the caller's array
\* the position of the batch in the array as passed, 0 when there is none
BatchAt ==
  IF \E k \in 1..Len(job.orig) : job.orig[k].dim > 0
    THEN CHOOSE k \in 1..Len(job.orig) :
           job.orig[k].dim > 0 /\ \A j \in 1..(k - 1) : job.orig[j].dim = 0
    ELSE 0
HasBatch == job.pc # "idle" /\ BatchAt # 0
PerGroup == job.sql.place
\* the values of the batch, in the order the caller wrote them
BatchLen ==
  LET b == job.orig[BatchAt] IN
  IF b.dim = 2 THEN Len(b.v) * PerGroup ELSE Len(b.v)
BatchValue(x) ==
  LET b == job.orig[BatchAt] IN
  IF b.dim = 2 THEN b.v[((x - 1) \div PerGroup) + 1][((x - 1) % PerGroup) + 1]
  ELSE b.v[x]
Leading == [k \in 1..(BatchAt - 1) |-> job.orig[k].v[1]]
Trailing == [k \in 1..(Len(job.orig) - BatchAt) |-> job.orig[BatchAt + k].v[1]]
\* the batch fills a positive whole number of groups
WholeGroups == BatchLen > 0 /\ BatchLen % PerGroup = 0
Groups == BatchLen \div PerGroup
\* the fragment n times, joined by the separator
Repeated(n) ==
  <<"head">>
    \o [x \in 1..(2 * n - 1) |-> IF x % 2 = 1 THEN "fragment" ELSE "separator"]
    \o <<"tail">>
\* the parameters of an execution of cnt groups that follow the first skip
GroupsFrom(skip, cnt) ==
  Leading
    \o [x \in 1..(cnt * PerGroup) |-> BatchValue(skip * PerGroup + x)]
    \o Trailing

\* the cap M >= 1 of a statement on the capped path
Capped ==
  /\ HasBatch /\ job.sql.pattern /\ WholeGroups
  /\ IF job.opt.hasMaxRow THEN job.opt.maxRow >= 1 ELSE job.sql.insert
Cap == IF job.opt.hasMaxRow THEN job.opt.maxRow ELSE DefaultMaxRow
CeilDiv(a, b) == (a + b - 1) \div b
\* the groups of the k-th execution
ChunkSize(k) == IF k <= Groups \div Cap THEN Cap ELSE Groups % Cap

\* C15: a batch of G groups under cap M >= 1 is sent in ceil(G/M)
\* executions, one after the other: floor(G/M) of M groups in the order of
\* the data, then one of G mod M groups if any; each carries the leading
\* parameters, its slice of the batch and the trailing parameters, and the
\* call returns one result per execution.
C15_Chunking ==
  Capped =>
    /\ Len(execs) <= CeilDiv(Groups, Cap)
    /\ \A k \in 1..Len(execs) :
         /\ execs[k].sql = Repeated(ChunkSize(k))
         /\ execs[k].params = GroupsFrom((k - 1) * Cap, ChunkSize(k))
    /\ job.pc \in {"waitChunk", "waitRest"} => job.n = Len(execs) - 1
    /\ (job.pc = "done" /\ ret.kind # "error") =>
         /\ Len(execs) = CeilDiv(Groups, Cap)
         /\ ret.kind = "list" /\ ret.len = Len(execs)

\* five groups under a cap of two went out as 2, 2 and 1
C15_Witness ==
  /\ Capped /\ job.pc = "done" /\ ret.kind = "list" /\ ret.len = 3
  /\ Groups = 5 /\ Cap = 2
  /\ Len(execs[3].params) < Len(execs[1].params)
  /\ Leading # <<>> /\ Trailing # <<>>

\* the caller's array with the batch written flat, and written as rows
AsFlat ==
  [job.orig EXCEPT ![BatchAt] = Flat([x \in 1..BatchLen |-> BatchValue(x)])]
AsNested ==
  [job.orig EXCEPT ![BatchAt] =
     Nested([r \in 1..Groups |->
               [c \in 1..PerGroup |-> BatchValue((r - 1) * PerGroup + c)]])]
\* every execution _exec makes for the parameter array ps
Plan(ps) ==
  IF SingleShot(job.sql, job.opt) THEN <<SingleExec(job, ps)>>
  ELSE [k \in 1..FullChunks(job, ps) |-> ChunkExec(job, ps, k - 1)]
         \o (IF Rest(job, ps) > 0 THEN <<RestExec(job, ps)>> ELSE <<>>)

\* C16: a batch of G >= 1 groups of k values gives the same executions
\* whether it is passed flat or as G rows: the fragment repeated and joined
\* by the separator, and the leading parameters, the batch values in order
\* and the trailing parameters; sent in one statement these are G copies
\* and every value.  A flat batch whose length is not a positive multiple
\* of k is rejected with the mismatch error before anything is sent.
C16_FlatNested ==
  (HasBatch /\ job.sql.pattern) =>
    IF WholeGroups
      THEN /\ Plan(AsFlat) = Plan(AsNested)
           /\ IsPrefix(execs, Plan(AsFlat))
           /\ (job.pc = "done" /\ ret.kind # "error") => execs = Plan(AsFlat)
           /\ (SingleShot(job.sql, job.opt) /\ execs # <<>>) =>
                /\ execs[1].sql = Repeated(Groups)
                /\ execs[1].params = GroupsFrom(0, Groups)
      ELSE /\ execs = <<>>
           /\ job.pc \in {"start", "done"}
           /\ job.pc = "done" => ret.kind = "error" /\ ret.err = "Mismatch"

\* a batch passed as two rows of two values between a leading and a
\* trailing parameter went out as one statement with six parameters
C16_Witness ==
  /\ HasBatch /\ job.orig[BatchAt].dim = 2 /\ PerGroup = 2 /\ Groups = 2
  /\ job.pc = "done" /\ ret.kind = "rows"
  /\ execs = Plan(AsFlat)
  /\ Len(execs[1].params) = 6

\* C17: a call with a batch that made exactly one execution returns the
\* rows of that execution (the full response with the fields option), not a
\* sequence; a sequence is returned only after more than one execution.
C17_SingleResult ==
  (HasBatch /\ job.pc = "done" /\ ret.kind # "error") =>
    /\ Len(execs) = 1 =>
         ret.kind = (IF job.opt.fields THEN "full" ELSE "rows")
    /\ ret.kind = "list" => Len(execs) > 1

\* C18: a call that failed leaves the caller's parameter array as it was
\* passed, the nested batch included.
C18_ParamsUnchanged ==
  (job.pc = "done" /\ ret.kind = "error") => params = job.orig

====
